---- MODULE Spec2Model ----
(***************************************************************************)
(* A model of cli-wrapper (src/src/main.rs): the response-file codec, the  *)
(* argument store (top-level argument list plus the loaded response        *)
(* files) and the transformations a rewrite session applies to it.         *)
(*                                                                         *)
(* A string is a sequence of one-character strings; a token is a string;   *)
(* an Option<String> is a sequence of length 0 (None) or 1 (Some).         *)
(***************************************************************************)
EXTENDS Integers, Sequences, FiniteSets, TLC

VARIABLES arguments,     \* Configuration.arguments
          response_map,  \* Configuration.response_map: path -> ResponseFile
          disk,          \* existing response files: path -> tokens read from it
          ncommands,     \* directives of the `commands` list applied so far
          op,            \* history: the directive applied last
          pre,           \* history: arguments and response_map before it
          codec,         \* the codec pipeline: text -> tokens -> text -> tokens
          session,       \* run() and main(): position, scratch files, child, exit
          peer           \* a second wrapper process running on the same file system

vars == <<arguments, response_map, disk, ncommands, op, pre, codec, session, peer>>

\* ------------------------------------------------------------------ bounds
MaxArgs == 3
MaxFileLen == 2
MaxCommands == 1
MaxTextLen == 4

\* -------------------------------------------------------------- characters
SP == " "
TAB == "\t"
NL == "\n"
CR == "\r"
QUOTE == "\""
BSL == "\\"

None == << >>
Some(x) == << x >>
is_some(o) == Len(o) > 0

Range(s) == { s[k] : k \in DOMAIN s }

\* All sequences over S of length 0..n.
SeqsUpTo(S, n) == UNION { [1..k -> S] : k \in 0..n }

\* str::ends_with
ends_with(s, suffix) ==
    /\ Len(suffix) <= Len(s)
    /\ SubSeq(s, Len(s) - Len(suffix) + 1, Len(s)) = suffix

\* str::strip_prefix("@"): None, or Some(rest)
strip_prefix_at(s) ==
    IF Len(s) >= 1 /\ s[1] = "@" THEN Some(Tail(s)) ELSE None

\* Vec::remove(i), i counted from 0
vec_remove(v, i) == SubSeq(v, 1, i) \o SubSeq(v, i + 2, Len(v))

\* Vec::insert(i, x), i counted from 0
vec_insert(v, i, x) == SubSeq(v, 1, i) \o << x >> \o SubSeq(v, i + 1, Len(v))

\* Vec::contains
contains(v, x) == \E k \in DOMAIN v : v[k] = x

\* ------------------------------------------------------ response-file codec
\* char::is_whitespace, over the characters of the model
is_whitespace(c) == c \in {SP, TAB, NL, CR}

\* ResponseFile::escape: the per-character rewriting
RECURSIVE escape_chars(_)
escape_chars(arg) ==
    IF arg = << >> THEN << >>
    ELSE LET c == Head(arg) IN
         (CASE c = SP    -> << c >>
            [] c = TAB   -> << BSL, "t" >>
            [] c = QUOTE -> << BSL, QUOTE >>
            [] c = BSL   -> << BSL, BSL >>
            [] OTHER     -> << c >>) \o escape_chars(Tail(arg))

\* ResponseFile::escape: needs_quotes after the loop
needs_quotes(arg) == \E k \in DOMAIN arg : arg[k] \in {SP, TAB, QUOTE}

escape(arg) ==
    IF needs_quotes(arg) THEN << QUOTE >> \o escape_chars(arg) \o << QUOTE >>
    ELSE escape_chars(arg)

\* ResponseFile::unescape
RECURSIVE unescape(_)
unescape(arg) ==
    IF arg = << >> THEN << >>
    ELSE LET c == Head(arg) IN
         IF c = BSL THEN
             IF Len(arg) >= 2 THEN
                 LET next_char == arg[2]
                     rest == unescape(SubSeq(arg, 3, Len(arg)))
                 IN  CASE next_char = QUOTE -> << QUOTE >> \o rest
                       [] next_char = BSL   -> << BSL >> \o rest
                       [] OTHER             -> << BSL, next_char >> \o rest
             ELSE << BSL >>
         ELSE << c >> \o unescape(Tail(arg))

\* ResponseFile::parse_response_file: the loop over content.chars(), at
\* position k with the locals args, current_arg, in_quotes, escape_next,
\* and the flush after the loop.
RECURSIVE parse_loop(_, _, _, _, _, _)
parse_loop(content, k, args, current_arg, in_quotes, escape_next) ==
    IF k > Len(content) THEN
        IF current_arg # << >> THEN Append(args, unescape(current_arg)) ELSE args
    ELSE LET c == content[k] IN
         IF escape_next THEN
             parse_loop(content, k + 1, args, Append(current_arg, c), in_quotes, FALSE)
         ELSE IF c = BSL THEN
             parse_loop(content, k + 1, args, current_arg, in_quotes, TRUE)
         ELSE IF c = QUOTE THEN
             parse_loop(content, k + 1, args, current_arg, ~in_quotes, FALSE)
         ELSE IF is_whitespace(c) /\ ~in_quotes THEN
             IF current_arg # << >> THEN
                 parse_loop(content, k + 1, Append(args, unescape(current_arg)),
                            << >>, in_quotes, FALSE)
             ELSE parse_loop(content, k + 1, args, current_arg, in_quotes, FALSE)
         ELSE parse_loop(content, k + 1, args, Append(current_arg, c), in_quotes, FALSE)

parse_response_file(content) == parse_loop(content, 1, << >>, << >>, FALSE, FALSE)

\* String::replace("\r\n", "\n")
RECURSIVE replace_crlf(_)
replace_crlf(s) ==
    IF s = << >> THEN << >>
    ELSE IF Len(s) >= 2 /\ s[1] = CR /\ s[2] = NL
         THEN << NL >> \o replace_crlf(SubSeq(s, 3, Len(s)))
         ELSE << Head(s) >> \o replace_crlf(Tail(s))

\* ResponseFile::read_response_file on a readable file holding `text`
read_response_file(text) == parse_response_file(replace_crlf(text))

\* ResponseFile::write_response_file: the content written for `values`
RECURSIVE join_escaped(_)
join_escaped(values) ==
    IF values = << >> THEN << >>
    ELSE IF Len(values) = 1 THEN escape(values[1])
    ELSE escape(values[1]) \o << SP >> \o join_escaped(Tail(values))

write_response_file(values) == join_escaped(values)

\* ------------------------------------------------------------ the store
\* Tokens the sessions of the model are built from.
tA == << "a" >>
tXA == << "x", "a" >>
tB == << "b" >>
tRefF == << "@", "f" >>
pathF == << "f" >>
tStatic == << "-", "s", "t", "a", "t", "i", "c" >>
tDn == << "-", "d", "n" >>
tNonShared == << "-", "n", "o", "n", "_", "s", "h", "a", "r", "e", "d" >>
tDy == << "-", "d", "y" >>
tCallShared == << "-", "c", "a", "l", "l", "_", "s", "h", "a", "r", "e", "d" >>
tBstatic == << "-", "B", "s", "t", "a", "t", "i", "c" >>
tBdynamic == << "-", "B", "d", "y", "n", "a", "m", "i", "c" >>
tWlBstatic == << "-", "W", "l", "," >> \o tBstatic
tWlBdynamic == << "-", "W", "l", "," >> \o tBdynamic

\* run(): the scratch path of a response file, temp_dir()/clw_res_<file name>
RECURSIVE file_name(_)
file_name(path) ==
    IF \E k \in DOMAIN path : path[k] = "/"
    THEN file_name(Tail(path))
    ELSE path

temp_dir == << "T", "/" >>

scratch_path(path) ==
    temp_dir \o << "c", "l", "w", "_", "r", "e", "s", "_" >> \o file_name(path)

\* ResponseFile::new; `tokens` is what read_response_file returned
ResponseFile_new(original_path, new_path, tokens) ==
    [original_path |-> original_path, new_path |-> new_path,
     values |-> tokens, changed |-> FALSE]

\* HashMap::new()
EmptyMap == [p \in {} |-> ResponseFile_new(<< >>, << >>, << >>)]

\* The nested scan handed the response_map of the outer scan
nested_map_shared(rmap) == rmap

\* The map handed to the nested scan of a response file: &mut HashMap::new()
nested_map(rmap) == EmptyMap

\* run(): the response_map built while the arguments are collected. A file
\* is loaded when an @path argument names an existing file.
load_response_map(args, files) ==
    [p \in { q \in DOMAIN files : contains(args, << "@" >> \o q) } |->
        ResponseFile_new(p, scratch_path(p), files[p])]

\* remove_value taking out the first token equal to value only
remove_value_first(rf, value) ==
    LET hits == { k \in DOMAIN rf.values : rf.values[k] = value }
    IN  IF hits = {} THEN rf
        ELSE LET k == CHOOSE h \in hits : \A g \in hits : h <= g
             IN  [rf EXCEPT !.values = vec_remove(rf.values, k - 1), !.changed = TRUE]

\* ResponseFile::remove_value
remove_value(rf, value) ==
    LET kept == SelectSeq(rf.values, LAMBDA v : v # value)
    IN  [rf EXCEPT !.values = kept,
                   !.changed = rf.changed \/ (Len(rf.values) # Len(kept))]

\* ResponseFile::replace_value
replace_value(rf, old, new) ==
    [rf EXCEPT !.values = [k \in DOMAIN rf.values |->
                              IF rf.values[k] = old THEN new ELSE rf.values[k]],
               !.changed = rf.changed \/ contains(rf.values, old)]

\* remove_argument: the while loop at index i (counted from 0) with the
\* locals args and result; returns the mutated args and response_map and the
\* returned result.
RECURSIVE remove_argument_loop(_, _, _, _, _, _, _)
remove_argument_loop(value, before, after, args, rmap, i, result) ==
    IF ~(i < Len(args)) THEN [args |-> args, response_map |-> rmap, result |-> result]
    ELSE LET path == strip_prefix_at(args[i + 1]) IN
         IF is_some(path) THEN
             IF path[1] \in DOMAIN rmap THEN
                 LET nested == remove_argument_loop(value, before, after,
                                   rmap[path[1]].values, nested_map(rmap), 0, << >>)
                     fresh == SelectSeq(nested.result, LAMBDA item : ~contains(result, item))
                 IN  remove_argument_loop(value, before, after, args,
                         [rmap EXCEPT ![path[1]].values = nested.args],
                         i + 1, result \o fresh)
             ELSE remove_argument_loop(value, before, after, args, rmap, i + 1, result)
         ELSE IF ends_with(args[i + 1], value) THEN
             LET lib == args[i + 1]
                 pushed == IF contains(result, lib) THEN result ELSE Append(result, lib)
             IN  IF is_some(before) THEN
                     IF i > 1 /\ ends_with(args[i], before[1]) THEN
                         \* continue: i is not advanced
                         remove_argument_loop(value, before, after,
                             vec_remove(args, i), rmap, i, pushed)
                     ELSE remove_argument_loop(value, before, after, args, rmap, i + 1, result)
                 ELSE IF is_some(after) THEN
                     IF i < Len(args) - 1 /\ ends_with(args[i + 2], after[1]) THEN
                         remove_argument_loop(value, before, after,
                             vec_remove(args, i), rmap, i + 1, pushed)
                     ELSE remove_argument_loop(value, before, after, args, rmap, i + 1, result)
                 ELSE remove_argument_loop(value, before, after,
                          vec_remove(args, i), rmap, i + 1, pushed)
         ELSE remove_argument_loop(value, before, after, args, rmap, i + 1, result)

\* remove_argument with the anchor operands dropped
remove_argument_unanchored(value, before, after, args, rmap) ==
    remove_argument_loop(value, None, None, args, rmap, 0, << >>)

remove_argument(value, before, after, args, rmap) ==
    remove_argument_loop(value, before, after, args, rmap, 0, << >>)

\* move_to_back_for_before_feature: arguments.append(&mut result)
move_to_back_for_before_feature(value, before, args, rmap) ==
    LET r == remove_argument(value, before, None, args, rmap)
    IN  [arguments |-> r.args \o r.result, response_map |-> r.response_map]

\* move_to_back_for_after_feature
move_to_back_for_after_feature(value, after, args, rmap) ==
    LET r == remove_argument(value, None, after, args, rmap)
    IN  [arguments |-> r.args \o r.result, response_map |-> r.response_map]

\* move_to_front_for_before_feature with the body of the move-to-back twin
move_to_front_appending(value, before, args, rmap) ==
    LET r == remove_argument(value, before, None, args, rmap)
    IN  [arguments |-> r.args \o r.result, response_map |-> r.response_map]

\* move_to_front_for_before_feature: arguments.splice(0..0, result)
move_to_front_for_before_feature(value, before, args, rmap) ==
    LET r == remove_argument(value, before, None, args, rmap)
    IN  [arguments |-> r.result \o r.args, response_map |-> r.response_map]

\* move_to_front_for_after_feature
move_to_front_for_after_feature(value, after, args, rmap) ==
    LET r == remove_argument(value, None, after, args, rmap)
    IN  [arguments |-> r.result \o r.args, response_map |-> r.response_map]

\* replace_argument_feature with Some(value)
replace_argument_feature(key, value, args, rmap) ==
    [arguments |-> [k \in DOMAIN args |-> IF args[k] = key THEN value ELSE args[k]],
     response_map |-> [p \in DOMAIN rmap |-> replace_value(rmap[p], key, value)]]

\* remove_argument_feature
remove_argument_feature(key, args, rmap) ==
    [arguments |-> SelectSeq(args, LAMBDA item : item # key),
     response_map |-> [p \in DOMAIN rmap |-> remove_value(rmap[p], key)]]

\* static_key with the test of is_linker inverted
static_key_inverted(is_linker) == IF is_some(is_linker) THEN tWlBstatic ELSE tBstatic

\* change_link_feature: the flag spellings chosen from is_linker
static_key(is_linker) == IF is_some(is_linker) THEN tBstatic ELSE tWlBstatic
dynamic_key(is_linker) == IF is_some(is_linker) THEN tBdynamic ELSE tWlBdynamic

\* insert_flags with the two inserted flags exchanged
insert_flags_exchanged(args, i, dynamic_link, is_linker) ==
    IF dynamic_link
    THEN vec_insert(vec_insert(args, i, static_key(is_linker)),
                    i + 2, dynamic_key(is_linker))
    ELSE vec_insert(vec_insert(args, i, dynamic_key(is_linker)),
                    i + 2, static_key(is_linker))

\* insert_flags with the first flag stored over the key instead of inserted
insert_flags_overwriting(args, i, dynamic_link, is_linker) ==
    IF dynamic_link
    THEN vec_insert([args EXCEPT ![i + 1] = dynamic_key(is_linker)],
                    i + 1, static_key(is_linker))
    ELSE vec_insert([args EXCEPT ![i + 1] = static_key(is_linker)],
                    i + 1, dynamic_key(is_linker))

\* change_link_feature: the two arguments.insert calls around the key at i
insert_flags(args, i, dynamic_link, is_linker) ==
    IF dynamic_link
    THEN vec_insert(vec_insert(args, i, dynamic_key(is_linker)),
                    i + 2, static_key(is_linker))
    ELSE vec_insert(vec_insert(args, i, static_key(is_linker)),
                    i + 2, dynamic_key(is_linker))

\* The size test with its result ignored: the file is marked on every scan
size_differs_always(old_size, new_size) == TRUE

\* change_link_feature: if old_size != res.values.len()
size_differs(old_size, new_size) == old_size # new_size

\* change_link_feature: the while loop at index i (counted from 0); returns
\* the mutated arguments and response_map and the returned is_dynamic.
RECURSIVE change_link_loop(_, _, _, _, _, _, _)
change_link_loop(key, is_linker, dynamic_link, is_dynamic, args, rmap, i) ==
    IF ~(i < Len(args)) THEN
        [arguments |-> args, response_map |-> rmap, is_dynamic |-> is_dynamic]
    ELSE LET arg == args[i + 1] IN
         IF arg = static_key(is_linker) \/ arg = tDn \/ arg = tNonShared \/ arg = tStatic THEN
             change_link_loop(key, is_linker, dynamic_link, FALSE, args, rmap, i + 1)
         ELSE IF arg = dynamic_key(is_linker) \/ arg = tDy \/ arg = tCallShared THEN
             change_link_loop(key, is_linker, dynamic_link, TRUE, args, rmap, i + 1)
         ELSE IF arg = key /\ is_dynamic # dynamic_link THEN
             \* i += 2, then the i += 1 that ends every iteration
             change_link_loop(key, is_linker, dynamic_link, is_dynamic,
                              insert_flags(args, i, dynamic_link, is_linker),
                              rmap, i + 2 + 1)
         ELSE LET path == strip_prefix_at(arg) IN
              IF is_some(path) /\ path[1] \in DOMAIN rmap THEN
                  LET res == rmap[path[1]]
                      nested == change_link_loop(key, is_linker, dynamic_link,
                                    is_dynamic, res.values, nested_map(rmap), 0)
                  IN  change_link_loop(key, is_linker, dynamic_link, nested.is_dynamic,
                          args,
                          [rmap EXCEPT ![path[1]] =
                              [res EXCEPT !.values = nested.arguments,
                                          !.changed = res.changed
                                              \/ size_differs(Len(res.values),
                                                              Len(nested.arguments))]],
                          i + 1)
              ELSE change_link_loop(key, is_linker, dynamic_link, is_dynamic,
                                    args, rmap, i + 1)

change_link_feature(key, is_linker, dynamic_link, is_dynamic, args, rmap) ==
    change_link_loop(key, is_linker, dynamic_link, is_dynamic, args, rmap, 0)

\* static_link_feature: desired Static, scan started Dynamic
static_link_feature(key, is_linker, args, rmap) ==
    change_link_feature(key, is_linker, FALSE, TRUE, args, rmap)

\* dynamic_link_feature: desired Dynamic, scan started Dynamic
dynamic_link_feature(key, is_linker, args, rmap) ==
    change_link_feature(key, is_linker, TRUE, TRUE, args, rmap)

\* run(): c.2(c.0, c.1, &mut config) for the directive d of the commands list
apply_directive(d, args, rmap) ==
    CASE d.kind = "remove" -> remove_argument_feature(d.key, args, rmap)
      [] d.kind = "replace" -> replace_argument_feature(d.key, d.value, args, rmap)
      [] d.kind = "move" /\ d.dir = "back" /\ d.after = << >> ->
             move_to_back_for_before_feature(d.value, d.before, args, rmap)
      [] d.kind = "move" /\ d.dir = "back" /\ d.after # << >> ->
             move_to_back_for_after_feature(d.value, d.after, args, rmap)
      [] d.kind = "move" /\ d.dir = "front" /\ d.after = << >> ->
             move_to_front_for_before_feature(d.value, d.before, args, rmap)
      [] d.kind = "move" /\ d.dir = "front" /\ d.after # << >> ->
             move_to_front_for_after_feature(d.value, d.after, args, rmap)
      [] d.kind = "link" ->
             LET r == IF d.dynamic_link
                      THEN dynamic_link_feature(d.key, d.is_linker, args, rmap)
                      ELSE static_link_feature(d.key, d.is_linker, args, rmap)
             IN  [arguments |-> r.arguments, response_map |-> r.response_map]

\* ------------------------------------------------------- inputs of the model
\* Paths of the response files that exist on disk.
FilePaths == { pathF }

\* Arguments and response-file tokens of a session that relocates.
MoveTokens == { tA, tXA, tB, tRefF }
MoveFileTokens == { tA, tXA, tB }

\* Arguments and response-file tokens of a session that toggles link modes.
LinkTokens == { tA, tStatic, tBdynamic, tRefF }
LinkFileTokens == { tA, tStatic, tBdynamic }

\* Operands of the directives.
RemoveKeys == { tA, tB }
ReplacePairs == { << tA, tB >>, << tB, tXA >> }
MoveValues == { tA }
MoveAnchors == { tA, tB }
LinkKeys == { tA }
LinkerOptions == { None, Some(<< "1" >>) }

\* Response-file texts and token sequences the codec is run on.
TextChars == { "a", SP, TAB, NL, CR, QUOTE, BSL }
TokenChars == { "a", SP, TAB, QUOTE, BSL }
Texts == SeqsUpTo(TextChars, MaxTextLen)

\* s cut into tokens after every position of cuts
RECURSIVE Split(_, _, _)
Split(s, cuts, from) ==
    IF from > Len(s) THEN << >>
    ELSE LET later == { c \in cuts : c >= from /\ c < Len(s) }
             to == IF later = {} THEN Len(s)
                   ELSE CHOOSE c \in later : \A d \in later : c <= d
         IN  << SubSeq(s, from, to) >> \o Split(s, cuts, to + 1)

\* Sequences of non-empty tokens with at most MaxTextLen characters in all
TokenSeqs ==
    { Split(s, cuts, 1) :
        s \in SeqsUpTo(TokenChars, MaxTextLen), cuts \in SUBSET (1..(MaxTextLen - 1)) }

\* ------------------------------------------------------------------ state
NoOp == [kind |-> "init", dir |-> "-", key |-> << >>, value |-> << >>,
         before |-> None, after |-> None, dynamic_link |-> FALSE, is_linker |-> None]

CodecIdle == [pc |-> "idle", src |-> "-", text0 |-> << >>, toks |-> << >>,
              text |-> << >>, back |-> << >>]

Snapshot == [arguments |-> arguments, response_map |-> response_map]

\* No file written, indexed by path
NoFiles == [p \in {} |-> << >>]

\* run() about to apply its directives: nothing written, no child spawned,
\* no exit status yet (-1)
NewSession(just_print) ==
    [pc |-> "commands", just_print |-> just_print, fs |-> NoFiles, writes |-> << >>,
     write_failed |-> FALSE, err |-> FALSE, spawned |-> FALSE, child |-> "none", code |-> 1, status |-> -1]

\* No second wrapper process
NoPeer == [pc |-> "none", arguments |-> << >>, response_map |-> EmptyMap,
           ncommands |-> 0, writes |-> << >>]

\* A session right after run() has collected the arguments and loaded the
\* response files they reference, before the first directive is applied.
SessionInit(argTokens, fileTokens) ==
    /\ arguments \in SeqsUpTo(argTokens, MaxArgs)
    /\ disk \in [ { p \in FilePaths : contains(arguments, << "@" >> \o p) } ->
                    SeqsUpTo(fileTokens, MaxFileLen) ]
    /\ response_map = load_response_map(arguments, disk)
    /\ ncommands = 0
    /\ op = NoOp
    /\ pre = Snapshot
    /\ codec = CodecIdle
    /\ peer = NoPeer
    /\ session = NewSession(FALSE)

InitMove == SessionInit(MoveTokens, MoveFileTokens)

InitLink == SessionInit(LinkTokens, LinkFileTokens)

Init == InitMove \/ InitLink

\* One directive of the `commands` list is applied (run(): for c in commands).
Apply(result, directive) ==
    /\ session.pc = "commands"
    /\ arguments' = result.arguments
    /\ response_map' = result.response_map
    /\ ncommands' = ncommands + 1
    /\ op' = directive
    /\ pre' = Snapshot
    /\ UNCHANGED << disk, codec, session, peer >>

\* -clw-remove=<key>
Remove ==
    /\ ncommands < MaxCommands
    /\ \E key \in RemoveKeys :
        Apply(remove_argument_feature(key, arguments, response_map),
              [NoOp EXCEPT !.kind = "remove", !.key = key])

\* -clw-replace-<key>=<value>
Replace ==
    /\ ncommands < MaxCommands
    /\ \E pair \in ReplacePairs :
        Apply(replace_argument_feature(pair[1], pair[2], arguments, response_map),
              [NoOp EXCEPT !.kind = "replace", !.key = pair[1], !.value = pair[2]])

\* -clw-move-back=<value> and -clw-move-back-before-<anchor>=<value>
MoveBackBefore ==
    /\ ncommands < MaxCommands
    /\ \E value \in MoveValues, before \in { None } \cup { Some(x) : x \in MoveAnchors } :
        Apply(move_to_back_for_before_feature(value, before, arguments, response_map),
              [NoOp EXCEPT !.kind = "move", !.dir = "back", !.value = value,
                           !.before = before])

\* -clw-move-back-after-<anchor>=<value>
MoveBackAfter ==
    /\ ncommands < MaxCommands
    /\ \E value \in MoveValues, after \in { Some(x) : x \in MoveAnchors } :
        Apply(move_to_back_for_after_feature(value, after, arguments, response_map),
              [NoOp EXCEPT !.kind = "move", !.dir = "back", !.value = value,
                           !.after = after])

\* -clw-move-front=<value> and -clw-move-front-before-<anchor>=<value>
MoveFrontBefore ==
    /\ ncommands < MaxCommands
    /\ \E value \in MoveValues, before \in { None } \cup { Some(x) : x \in MoveAnchors } :
        Apply(move_to_front_for_before_feature(value, before, arguments, response_map),
              [NoOp EXCEPT !.kind = "move", !.dir = "front", !.value = value,
                           !.before = before])

\* -clw-move-front-after-<anchor>=<value>
MoveFrontAfter ==
    /\ ncommands < MaxCommands
    /\ \E value \in MoveValues, after \in { Some(x) : x \in MoveAnchors } :
        Apply(move_to_front_for_after_feature(value, after, arguments, response_map),
              [NoOp EXCEPT !.kind = "move", !.dir = "front", !.value = value,
                           !.after = after])

\* -clw-static-link=<key> (is_linker Some) and -clw-static-link-compiler=<key>
StaticLink ==
    /\ ncommands < MaxCommands
    /\ \E key \in LinkKeys, is_linker \in LinkerOptions :
        LET r == static_link_feature(key, is_linker, arguments, response_map)
        IN  Apply([arguments |-> r.arguments, response_map |-> r.response_map],
                  [NoOp EXCEPT !.kind = "link", !.key = key, !.dynamic_link = FALSE,
                               !.is_linker = is_linker])

\* -clw-dynamic-link=<key> (is_linker Some) and -clw-dynamic-link-compiler=<key>
DynamicLink ==
    /\ ncommands < MaxCommands
    /\ \E key \in LinkKeys, is_linker \in LinkerOptions :
        LET r == dynamic_link_feature(key, is_linker, arguments, response_map)
        IN  Apply([arguments |-> r.arguments, response_map |-> r.response_map],
                  [NoOp EXCEPT !.kind = "link", !.key = key, !.dynamic_link = TRUE,
                               !.is_linker = is_linker])

NextMove == MoveBackBefore \/ MoveBackAfter \/ MoveFrontBefore \/ MoveFrontAfter

NextLink == StaticLink \/ DynamicLink

Next == Remove \/ Replace \/ NextMove \/ NextLink

\* A session applying any directives.
Spec == Init /\ [][Next]_vars

NextEdit == Remove \/ Replace

\* A session whose directives are removals and replacements.
EditSpec == InitMove /\ [][NextEdit]_vars

\* A session whose directives are relocations.
MoveSpec == InitMove /\ [][NextMove]_vars

\* A session whose directives are link-mode toggles.
LinkSpec == InitLink /\ [][NextLink]_vars

\* A session with a response file f that holds @a tokens, where a is a
\* second response file that may exist (and be loaded) or not.
pathA == << "a" >>
tRefA == << "@", "a" >>
NestPaths == { pathF, pathA }
NestTokens == { tA, tStatic, tRefF, tRefA }
NestContents(p) ==
    IF p = pathF
    THEN { << tRefA >>, << tRefA, tA >>, << tA, tRefA >>, << tStatic, tRefA >>, << tXA, tRefA, tA >> }
    ELSE { << tA >>, << tStatic >>, << tXA, tStatic, tA >> }

NestInit ==
    /\ arguments \in SeqsUpTo(NestTokens, MaxArgs)
    /\ \E existing \in SUBSET { p \in NestPaths : contains(arguments, << "@" >> \o p) } :
          \E files \in [existing -> UNION { NestContents(p) : p \in NestPaths }] :
              /\ \A p \in existing : files[p] \in NestContents(p)
              /\ disk = files
    /\ response_map = load_response_map(arguments, disk)
    /\ ncommands = 0
    /\ op = NoOp
    /\ pre = Snapshot
    /\ codec = CodecIdle
    /\ peer = NoPeer
    /\ session = NewSession(FALSE)

NestNext == NextMove \/ NextLink

\* A session over nested and unresolved references: relocations and toggles.
NestSpec == NestInit /\ [][NestNext]_vars

\* ------------------------------------------------------- the codec pipeline
CodecInit ==
    /\ arguments = << >>
    /\ disk = EmptyMap
    /\ response_map = EmptyMap
    /\ ncommands = 0
    /\ op = NoOp
    /\ pre = Snapshot
    /\ session = NewSession(FALSE)
    /\ peer = NoPeer
    /\ \/ \E t \in Texts :
            codec = [CodecIdle EXCEPT !.pc = "text", !.src = "text", !.text0 = t]
       \/ \E ts \in TokenSeqs :
            codec = [CodecIdle EXCEPT !.pc = "tokens", !.src = "tokens", !.toks = ts]

\* ResponseFile::new reads the file a session was given
CodecLoad ==
    /\ codec.pc = "text"
    /\ codec' = [codec EXCEPT !.pc = "tokens", !.toks = read_response_file(codec.text0)]
    /\ UNCHANGED << arguments, response_map, disk, ncommands, op, pre, session, peer >>

\* the finalizer writes the tokens to the scratch file
CodecWrite ==
    /\ codec.pc = "tokens"
    /\ codec' = [codec EXCEPT !.pc = "written", !.text = write_response_file(codec.toks)]
    /\ UNCHANGED << arguments, response_map, disk, ncommands, op, pre, session, peer >>

\* the scratch file is read back with the same tokenizer
CodecReload ==
    /\ codec.pc = "written"
    /\ codec' = [codec EXCEPT !.pc = "done", !.back = read_response_file(codec.text)]
    /\ UNCHANGED << arguments, response_map, disk, ncommands, op, pre, session, peer >>

CodecNext == CodecLoad \/ CodecWrite \/ CodecReload

CodecSpec == CodecInit /\ [][CodecNext]_vars

\* ------------------------------------------- the session: run() and main()
\* A response file in the working directory and one in the temporary
\* directory whose path is the scratch path of the first.
tRefScratchF == << "@" >> \o scratch_path(pathF)
RunPaths == { pathF, scratch_path(pathF) }
RunTokens == { tA, tRefF, tRefScratchF }
RunContents == { << tA >>, << tB, tA >> }

\* The orders in which HashMap::iter() can visit the keys S
Perms(S) ==
    { o \in [1..Cardinality(S) -> S] :
        \A i, j \in 1..Cardinality(S) : o[i] = o[j] => i = j }

\* fs::write(path, text)
put(fs, path, text) ==
    [q \in DOMAIN fs \cup { path } |-> IF q = path THEN text ELSE fs[q]]

\* fs::remove_file for every path of paths; a missing file is ignored
remove_files(fs, paths) == [q \in DOMAIN fs \ paths |-> fs[q]]

\* Configuration::replace_response_file: the loop over response_map.iter()
\* visiting the keys in `order`, at its k-th key; fs::write fails for the
\* paths of unwritable and the ? returns the error at once.
RECURSIVE replace_loop(_, _, _, _, _, _, _)
replace_loop(order, k, unwritable, args, rmap, fs, writes) ==
    IF k > Len(order) THEN
        [arguments |-> args, fs |-> fs, writes |-> writes, err |-> FALSE]
    ELSE LET v == rmap[order[k]] IN
         IF v.changed THEN
             IF v.new_path \in unwritable THEN
                 [arguments |-> args, fs |-> fs, writes |-> writes, err |-> TRUE]
             ELSE
                 LET content == write_response_file(v.values)
                     before == << "@" >> \o v.original_path
                     after == << "@" >> \o v.new_path
                 IN  replace_loop(order, k + 1, unwritable,
                         [i \in DOMAIN args |-> IF args[i] = before THEN after ELSE args[i]],
                         rmap, put(fs, v.new_path, content),
                         Append(writes, [origin |-> v.original_path,
                                         path |-> v.new_path, content |-> content]))
         ELSE replace_loop(order, k + 1, unwritable, args, rmap, fs, writes)

replace_response_file(order, unwritable, args, rmap, fs, writes) ==
    replace_loop(order, 1, unwritable, args, rmap, fs, writes)

\* run() with the ? after replace_response_file() left out
finalized_unchecked(s, r) ==
    [s EXCEPT !.fs = r.fs, !.writes = r.writes, !.write_failed = r.err,
              !.pc = "finalized"]

\* run(): config.replace_response_file()? - an error returns from run()
finalized(s, r) ==
    [s EXCEPT !.fs = r.fs, !.writes = r.writes, !.write_failed = r.err,
              !.err = r.err, !.pc = IF r.err THEN "unwinding" ELSE "finalized"]

\* Drop with the removal of the scratch files left out
drop_keeping(fs, rmap) == fs

\* impl Drop for Configuration: remove_file(new_path) of every response file
drop(fs, rmap) == remove_files(fs, { rmap[p].new_path : p \in DOMAIN rmap })

\* The exit codes of a child: exit_status.code(), 4 when there is none
ChildCodes == { 0, 2, 4 }

\* A session right after run() has collected the arguments; just_print is
\* the -clw-just-print flag.
RunInit ==
    /\ arguments \in SeqsUpTo(RunTokens, MaxArgs)
    /\ disk \in [ { p \in RunPaths : contains(arguments, << "@" >> \o p) } -> RunContents ]
    /\ response_map = load_response_map(arguments, disk)
    /\ ncommands = 0
    /\ op = NoOp
    /\ pre = Snapshot
    /\ codec = CodecIdle
    /\ peer = NoPeer
    /\ \E just_print \in BOOLEAN : session = NewSession(just_print)

\* The session after config.replace_response_file() returned r
Finalized(r) ==
    /\ arguments' = r.arguments
    /\ session' = finalized(session, r)
    /\ op' = [NoOp EXCEPT !.kind = "finalize"]
    /\ pre' = Snapshot
    /\ UNCHANGED << response_map, disk, ncommands, codec, peer >>

\* config.replace_response_file() writes every changed file
Finalize ==
    /\ session.pc = "commands"
    /\ \E order \in Perms(DOMAIN response_map) :
          Finalized(replace_response_file(order, {}, arguments, response_map,
                                          session.fs, session.writes))

\* config.replace_response_file() when one scratch file cannot be written
FinalizeFails ==
    /\ session.pc = "commands"
    /\ \E order \in Perms(DOMAIN response_map) :
          \E bad \in { p \in DOMAIN response_map : response_map[p].changed } :
              Finalized(replace_response_file(order, { response_map[bad].new_path },
                            arguments, response_map, session.fs, session.writes))

\* if config.just_print { return Ok(0) }
JustPrint ==
    /\ session.pc = "finalized" /\ session.just_print
    /\ session' = [session EXCEPT !.pc = "unwinding", !.code = 0]
    /\ UNCHANGED << arguments, response_map, disk, ncommands, op, pre, codec, peer >>

\* File::create(&config.redirect_stdout)? (or stderr) fails
OpenRedirectFails ==
    /\ session.pc = "finalized" /\ ~session.just_print
    /\ session' = [session EXCEPT !.pc = "unwinding", !.err = TRUE]
    /\ UNCHANGED << arguments, response_map, disk, ncommands, op, pre, codec, peer >>

\* command.spawn() is Err: code stays 1
SpawnFails ==
    /\ session.pc = "finalized" /\ ~session.just_print
    /\ session' = [session EXCEPT !.pc = "unwinding"]
    /\ UNCHANGED << arguments, response_map, disk, ncommands, op, pre, codec, peer >>

\* command.spawn() is Ok(child); run() blocks in child.wait()
Spawn ==
    /\ session.pc = "finalized" /\ ~session.just_print
    /\ session' = [session EXCEPT !.pc = "waiting", !.spawned = TRUE, !.child = "running"]
    /\ UNCHANGED << arguments, response_map, disk, ncommands, op, pre, codec, peer >>

\* child.wait() returns
ChildExits ==
    /\ session.pc = "waiting"
    /\ \E c \in ChildCodes :
          session' = [session EXCEPT !.pc = "unwinding", !.child = "exited", !.code = c]
    /\ UNCHANGED << arguments, response_map, disk, ncommands, op, pre, codec, peer >>

\* run() returns and config is dropped
Teardown ==
    /\ session.pc = "unwinding"
    /\ session' = [session EXCEPT !.pc = "dropped", !.fs = drop(session.fs, response_map)]
    /\ UNCHANGED << arguments, response_map, disk, ncommands, op, pre, codec, peer >>

\* main(): the exit status from run()'s result
Exit ==
    /\ session.pc = "dropped"
    /\ session' = [session EXCEPT !.pc = "exited",
                                   !.status = IF session.err THEN 1 ELSE session.code]
    /\ UNCHANGED << arguments, response_map, disk, ncommands, op, pre, codec, peer >>

RunNext ==
    \/ Remove \/ Finalize \/ FinalizeFails \/ JustPrint \/ OpenRedirectFails
    \/ SpawnFails \/ Spawn \/ ChildExits \/ Teardown \/ Exit

\* A whole session: directives, finalization, the child, teardown, exit.
RunSpec == RunInit /\ [][RunNext]_vars

\* The session keeps running: run() is sequential code, and the child it
\* waits for exits.
RunLive == RunSpec /\ WF_vars(RunNext)

\* ================================================================ properties
\* Notions the properties are stated in, independent of the operators above.

\* t ends with the characters of v
HasSuffix(t, v) == \E k \in 0..Len(t) : SubSeq(t, k + 1, Len(t)) = v

\* t is a top-level reference to a loaded response file
IsLoadedRef(t, rmap) == Len(t) >= 1 /\ t[1] = "@" /\ Tail(t) \in DOMAIN rmap

\* list without the elements at the positions of P
RECURSIVE KeepFrom(_, _, _)
KeepFrom(list, P, i) ==
    IF i > Len(list) THEN << >>
    ELSE (IF i \in P THEN << >> ELSE << list[i] >>) \o KeepFrom(list, P, i + 1)

Without(list, P) == KeepFrom(list, P, 1)

\* the elements of list at the positions of P, in order
Only(list, P) == KeepFrom(list, DOMAIN list \ P, 1)

\* list with every repeated value dropped, first occurrences kept in order
RECURSIVE FirstSeen(_)
FirstSeen(list) ==
    IF list = << >> THEN << >>
    ELSE LET d == FirstSeen(SubSeq(list, 1, Len(list) - 1))
             x == list[Len(list)]
         IN  IF x \in Range(d) THEN d ELSE Append(d, x)

\* the values of the loaded response files
Files(rmap) == [p \in DOMAIN rmap |-> rmap[p].values]

\* C1: every response file whose token sequence differs from the sequence
\* loaded from disk has changed = TRUE, after any sequence of Remove, Replace,
\* AnchoredRelocate and LinkModeToggle directives.
C1_ChangedTracksMutation ==
    \A p \in DOMAIN response_map :
        response_map[p].values # disk[p] => response_map[p].changed

\* C2: reading back what the serializer wrote for a token sequence built from
\* ordinary characters, spaces, tabs, quotes and backslashes gives that
\* token sequence.
C2_RoundTrip ==
    (codec.pc = "done" /\ codec.src = "tokens") => codec.back = codec.toks

\* C3: for a response-file text over ordinary characters, space, tab,
\* newline, quote and backslash, tokenizing the serialization of its tokens
\* gives its tokens again.
C3_Retokenize ==
    (codec.pc = "done" /\ codec.src = "text" /\ CR \notin Range(codec.text0))
        => codec.back = codec.toks

\* ---------------------------------------------------------- relocation
\* The positions of list whose token satisfies the suffix-and-anchor
\* condition of directive d, judged on the list as it is given. Top-level
\* references to loaded response files are scanned into, never collected.
Qualifying(list, d, rmap) ==
    { i \in DOMAIN list :
        /\ HasSuffix(list[i], d.value)
        /\ ~IsLoadedRef(list[i], rmap)
        /\ d.before # None => (i > 1 /\ HasSuffix(list[i - 1], d.before[1]))
        /\ d.after # None => (i < Len(list) /\ HasSuffix(list[i + 1], d.after[1])) }

QualifyingInFile(p, d) == Qualifying(pre.response_map[p].values, d, EmptyMap)

\* The loaded response files the top-level list of the snapshot references
Referenced(snap) ==
    { p \in DOMAIN snap.response_map : contains(snap.arguments, << "@" >> \o p) }

\* The qualifying tokens in scan order: the top-level list left to right,
\* a response file's at the position of its @path token.
RECURSIVE QualifyingStream(_, _)
QualifyingStream(d, i) ==
    IF i > Len(pre.arguments) THEN << >>
    ELSE LET t == pre.arguments[i] IN
         (IF IsLoadedRef(t, pre.response_map)
          THEN Only(pre.response_map[Tail(t)].values, QualifyingInFile(Tail(t), d))
          ELSE IF i \in Qualifying(pre.arguments, d, pre.response_map)
               THEN << t >> ELSE << >>) \o QualifyingStream(d, i + 1)

\* The store the relocation d is specified to leave: every qualifying token
\* taken out of its list, the deduplicated block at the front or the back.
RelocatedAsSpecified(d) ==
    LET rest == Without(pre.arguments, Qualifying(pre.arguments, d, pre.response_map))
        block == FirstSeen(QualifyingStream(d, 1))
    IN  /\ arguments = IF d.dir = "front" THEN block \o rest ELSE rest \o block
        /\ \A p \in DOMAIN response_map :
              response_map[p].values =
                  IF p \in Referenced(pre)
                  THEN Without(pre.response_map[p].values, QualifyingInFile(p, d))
                  ELSE pre.response_map[p].values

\* C4: a relocation without anchor collects every token whose suffix equals
\* the value, from the top-level list and from every referenced response
\* file (adjacent matches and a match followed by an @path included); the
\* result is the other tokens in their order with the deduplicated matches
\* at the front or at the back.
C4_NoAnchorCollectsAll ==
    (op.kind = "move" /\ op.before = None /\ op.after = None)
        => RelocatedAsSpecified(op)

\* C5: a relocation anchored "before" collects a token if and only if its
\* suffix equals the value and the token preceding it in the list as it was
\* before the directive has the anchor as suffix.
C5_BeforeAnchor ==
    (op.kind = "move" /\ op.before # None) => RelocatedAsSpecified(op)

\* C6: a relocation anchored "after" collects a token if and only if its
\* suffix equals the value and the token following it in the list as it was
\* before the directive has the anchor as suffix.
C6_AfterAnchor ==
    (op.kind = "move" /\ op.after # None) => RelocatedAsSpecified(op)

\* The top-level positions holding a reference to a loaded response file
RefPositions(snap) ==
    { i \in DOMAIN snap.arguments : IsLoadedRef(snap.arguments[i], snap.response_map) }

LongestFile(snap) ==
    LET lens == { Len(snap.response_map[p].values) : p \in DOMAIN snap.response_map }
    IN  IF lens = {} THEN 0 ELSE CHOOSE n \in lens : \A m \in lens : m <= n

\* The tokens taken in scan order when the top-level positions of taken and,
\* at the reference at top-level position i, the file positions of from[i]
\* are collected.
RECURSIVE TakenStream(_, _, _)
TakenStream(taken, from, i) ==
    IF i > Len(pre.arguments) THEN << >>
    ELSE LET t == pre.arguments[i] IN
         (IF i \in DOMAIN from THEN Only(pre.response_map[Tail(t)].values, from[i])
          ELSE IF i \in taken THEN << t >> ELSE << >>) \o TakenStream(taken, from, i + 1)

\* The positions of file p collected through any of its references
TakenFrom(from, p) ==
    UNION { from[i] : i \in { j \in DOMAIN from : Tail(pre.arguments[j]) = p } }

\* The store is the snapshot with some tokens collected: the tokens left
\* keep their lists and their order, and the collected ones form one block,
\* deduplicated in first-seen scan order, at the front or back of the
\* top-level list.
PlacedAsBlock(dir) ==
    \E taken \in SUBSET (DOMAIN pre.arguments \ RefPositions(pre)) :
        LET rest == Without(pre.arguments, taken)
            n == Len(arguments) - Len(rest)
        IN  /\ n >= 0
            /\ rest = IF dir = "front" THEN SubSeq(arguments, n + 1, Len(arguments))
                      ELSE SubSeq(arguments, 1, Len(rest))
            /\ \E from \in [RefPositions(pre) -> SUBSET (1..LongestFile(pre))] :
                  /\ \A i \in DOMAIN from :
                        from[i] \subseteq DOMAIN pre.response_map[Tail(pre.arguments[i])].values
                  /\ \A i, j \in DOMAIN from :
                        (i # j /\ pre.arguments[i] = pre.arguments[j])
                            => from[i] \cap from[j] = {}
                  /\ \A p \in DOMAIN response_map :
                        response_map[p].values =
                            Without(pre.response_map[p].values, TakenFrom(from, p))
                  /\ FirstSeen(TakenStream(taken, from, 1)) =
                         IF dir = "front" THEN SubSeq(arguments, 1, n)
                         ELSE SubSeq(arguments, Len(rest) + 1, Len(arguments))

\* C7: after a relocation the tokens that were not collected keep their
\* relative order, the collected tokens are one contiguous block,
\* deduplicated by value in first-seen scan order, at index 0 (front) or at
\* the end (back) of the top-level list, and tokens collected out of a
\* response file are in the top-level list and not in the file.
C7_Placement ==
    op.kind = "move" => (DOMAIN response_map = DOMAIN pre.response_map /\ PlacedAsBlock(op.dir))

\* The total number of tokens in the top-level list and the response files
RECURSIVE SumLen(_, _)
SumLen(files, ps) ==
    IF ps = {} THEN 0
    ELSE LET p == CHOOSE q \in ps : TRUE
         IN  Len(files[p]) + SumLen(files, ps \ {p})

TotalTokens(args, rmap) == Len(args) + SumLen(Files(rmap), DOMAIN rmap)

\* A relocation to the front has taken a token out of a response file and
\* one out of the top-level list, and dropped a duplicate of a collected value.
C7_Witness ==
    /\ op.kind = "move" /\ op.dir = "front"
    /\ \E p \in DOMAIN response_map :
          Len(response_map[p].values) < Len(pre.response_map[p].values)
    /\ Len(arguments) = Len(pre.arguments) /\ arguments # pre.arguments
    /\ TotalTokens(arguments, response_map) < TotalTokens(pre.arguments, pre.response_map)

\* No token of the top-level list or of a referenced response file satisfies
\* the suffix-and-anchor condition of d.
NothingQualifies(d) ==
    /\ Qualifying(pre.arguments, d, pre.response_map) = {}
    /\ \A p \in Referenced(pre) : QualifyingInFile(p, d) = {}

\* C8: a relocation for which no token satisfies the suffix-and-anchor
\* condition leaves the top-level list, every response file's tokens and
\* every changed flag as they were.
C8_NoMatchNoOp ==
    (op.kind = "move" /\ NothingQualifies(op))
        => (arguments = pre.arguments /\ response_map = pre.response_map)

\* An anchored relocation found tokens with the suffix, at the top level and
\* in a response file, and none of them at its anchor.
C8_Witness ==
    /\ op.kind = "move" /\ op.after # None
    /\ NothingQualifies(op)
    /\ \E i \in DOMAIN pre.arguments : HasSuffix(pre.arguments[i], op.value)
    /\ \E p \in Referenced(pre) :
          \E i \in DOMAIN pre.response_map[p].values :
              HasSuffix(pre.response_map[p].values[i], op.value)

\* ------------------------------------------------------ link-mode toggle
\* The spelling of the flag for a link mode: -Bstatic / -Bdynamic when the
\* wrapper is invoked as the linker, -Wl,-Bstatic / -Wl,-Bdynamic otherwise.
ModeFlag(mode, d) ==
    IF d.is_linker # None
    THEN (IF mode = "Dynamic" THEN tBdynamic ELSE tBstatic)
    ELSE (IF mode = "Dynamic" THEN tWlBdynamic ELSE tWlBstatic)

Desired(d) == IF d.dynamic_link THEN "Dynamic" ELSE "Static"

Opposite(mode) == IF mode = "Dynamic" THEN "Static" ELSE "Dynamic"

\* new is old with some occurrences of key replaced by << first, key, second >>
RECURSIVE BracketsOnly(_, _, _, _, _)
BracketsOnly(old, new, key, first, second) ==
    IF old = << >> THEN new = << >>
    ELSE \/ /\ new # << >>
            /\ Head(old) = Head(new)
            /\ BracketsOnly(Tail(old), Tail(new), key, first, second)
         \/ /\ Head(old) = key
            /\ Len(new) >= 3
            /\ SubSeq(new, 1, 3) = << first, key, second >>
            /\ BracketsOnly(Tail(old), SubSeq(new, 4, Len(new)), key, first, second)

\* Every list of the store is its snapshot with occurrences of the key
\* bracketed by first and second.
BracketedBy(first, second) ==
    /\ BracketsOnly(pre.arguments, arguments, op.key, first, second)
    /\ DOMAIN response_map = DOMAIN pre.response_map
    /\ \A p \in DOMAIN response_map :
          BracketsOnly(pre.response_map[p].values, response_map[p].values,
                       op.key, first, second)

\* C9 (as amended): a link-mode toggle changes the lists only by bracketing
\* occurrences of the key, with the flag for the desired mode immediately
\* before the key and the flag for the opposite mode immediately after it.
C9_DesiredThenOpposite ==
    op.kind = "link"
        => BracketedBy(ModeFlag(Desired(op), op), ModeFlag(Opposite(Desired(op)), op))

\* C9 (as claimed): the flag for the opposite of the desired mode is
\* immediately before the key and the flag for the desired mode immediately
\* after it.
C9_OppositeThenDesired ==
    op.kind = "link"
        => BracketedBy(ModeFlag(Opposite(Desired(op)), op), ModeFlag(Desired(op), op))

\* A toggle to Dynamic bracketed the key in the top-level list and in a
\* response file.
C9_Witness ==
    /\ op.kind = "link" /\ op.dynamic_link
    /\ arguments # pre.arguments
    /\ \E p \in DOMAIN response_map :
          response_map[p].values # pre.response_map[p].values

\* The mode the flag t sets when the scan of directive d meets it, or "-"
Sets(t, d) ==
    IF t \in { ModeFlag("Static", d), tDn, tNonShared, tStatic } THEN "Static"
    ELSE IF t \in { ModeFlag("Dynamic", d), tDy, tCallShared } THEN "Dynamic"
    ELSE "-"

\* The state machine of the toggle, a token at a time: a mode flag sets the
\* state; the key met in a state other than the desired one is bracketed and
\* leaves the state as it was; a top-level reference to a loaded file runs
\* the machine over the file from the current state and resumes in the state
\* it ends in; any other token passes. Gives the tokens put out, the state
\* at the end and the files.
RECURSIVE Toggled(_, _, _, _)
Toggled(list, state, d, files) ==
    IF list = << >> THEN [out |-> << >>, state |-> state, files |-> files]
    ELSE LET t == Head(list) IN
         IF Sets(t, d) # "-" THEN
             LET r == Toggled(Tail(list), Sets(t, d), d, files)
             IN  [r EXCEPT !.out = << t >> \o r.out]
         ELSE IF t = d.key /\ state # Desired(d) THEN
             LET r == Toggled(Tail(list), state, d, files)
             IN  [r EXCEPT !.out = << ModeFlag(Desired(d), d), t, ModeFlag(state, d) >> \o r.out]
         ELSE IF Len(t) >= 1 /\ t[1] = "@" /\ Tail(t) \in DOMAIN files THEN
             LET inner == Toggled(files[Tail(t)], state, d, << >>)
                 r == Toggled(Tail(list), inner.state, d,
                              [files EXCEPT ![Tail(t)] = inner.out])
             IN  [r EXCEPT !.out = << t >> \o r.out]
         ELSE LET r == Toggled(Tail(list), state, d, files)
              IN  [r EXCEPT !.out = << t >> \o r.out]

\* C10: a link-mode toggle brackets an occurrence of the key if and only if
\* the state tracked by the left-to-right scan at that occurrence (Dynamic
\* at the start, set by the mode flags, carried through response files)
\* differs from the desired mode; the inserted flags have the spelling
\* selected by invoked_as_linker; the tracked state after a bracketed key
\* is the state before it.
C10_BracketsIffStateDiffers ==
    op.kind = "link" =>
        LET r == Toggled(pre.arguments, "Dynamic", op, Files(pre.response_map))
        IN  /\ arguments = r.out
            /\ Files(response_map) = r.files

\* A compiler-driver toggle left an occurrence of the key in the top-level
\* list alone and bracketed one inside a response file.
C10_Witness ==
    /\ op.kind = "link" /\ op.is_linker = None
    /\ arguments = pre.arguments /\ contains(arguments, op.key)
    /\ \E p \in DOMAIN response_map :
          /\ response_map[p].values # pre.response_map[p].values
          /\ contains(response_map[p].values, tWlBstatic)

\* The positions of new holding the key with a token on either side
Flanked(new, key) ==
    { k \in DOMAIN new : new[k] = key /\ k - 1 >= 1 /\ k + 1 <= Len(new) }

\* new is old with tokens inserted and nothing else: for a set K of
\* occurrences of the key in new, the tokens directly before and directly
\* after each of them, one pair per occurrence, are mode flags in the
\* spelling of directive d, and deleting these gives back old.
OnlyInserted(old, new, d) ==
    \E K \in SUBSET Flanked(new, d.key) :
        LET P == UNION { { k - 1, k + 1 } : k \in K }
        IN  /\ P \cap K = {}
            /\ Cardinality(P) = 2 * Cardinality(K)
            /\ \A p \in P : new[p] \in { ModeFlag("Static", d), ModeFlag("Dynamic", d) }
            /\ Without(new, P) = old

\* C11: a link-mode toggle only inserts. For the top-level list and for
\* every response file, deleting the inserted tokens from the resulting
\* sequence gives back the original sequence, and every bracketed key has
\* exactly one inserted flag directly before it and one directly after it.
C11_OnlyInserts ==
    op.kind = "link" =>
        /\ OnlyInserted(pre.arguments, arguments, op)
        /\ DOMAIN response_map = DOMAIN pre.response_map
        /\ \A p \in DOMAIN response_map :
              OnlyInserted(pre.response_map[p].values, response_map[p].values, op)

\* A toggle bracketed two occurrences of the key in the top-level list and
\* one in a response file.
C11_Witness ==
    /\ op.kind = "link"
    /\ Len(arguments) = Len(pre.arguments) + 4
    /\ \E p \in DOMAIN response_map :
          Len(response_map[p].values) = Len(pre.response_map[p].values) + 2

\* The mode a mode-flag token stands for in either spelling, or "-"
ModeOf(t) ==
    IF t \in { tBstatic, tWlBstatic, tDn, tNonShared, tStatic } THEN "Static"
    ELSE IF t \in { tBdynamic, tWlBdynamic, tDy, tCallShared } THEN "Dynamic"
    ELSE "-"

\* The toggle a token at a time when every mode-flag token, whatever its
\* spelling, sets the state and is never bracketed.
RECURSIVE ToggledAnySpelling(_, _, _, _)
ToggledAnySpelling(list, state, d, files) ==
    IF list = << >> THEN [out |-> << >>, state |-> state, files |-> files]
    ELSE LET t == Head(list) IN
         IF ModeOf(t) # "-" THEN
             LET r == ToggledAnySpelling(Tail(list), ModeOf(t), d, files)
             IN  [r EXCEPT !.out = << t >> \o r.out]
         ELSE IF t = d.key /\ state # Desired(d) THEN
             LET r == ToggledAnySpelling(Tail(list), state, d, files)
             IN  [r EXCEPT !.out = << ModeFlag(Desired(d), d), t, ModeFlag(state, d) >> \o r.out]
         ELSE IF Len(t) >= 1 /\ t[1] = "@" /\ Tail(t) \in DOMAIN files THEN
             LET inner == ToggledAnySpelling(files[Tail(t)], state, d, << >>)
                 r == ToggledAnySpelling(Tail(list), inner.state, d,
                                         [files EXCEPT ![Tail(t)] = inner.out])
             IN  [r EXCEPT !.out = << t >> \o r.out]
         ELSE LET r == ToggledAnySpelling(Tail(list), state, d, files)
              IN  [r EXCEPT !.out = << t >> \o r.out]

\* C12: during the scan of a link-mode toggle every mode-flag token sets the
\* tracked state whether or not the wrapper is invoked as the linker:
\* -Bstatic, -Wl,-Bstatic, -dn, -non_shared and -static set Static;
\* -Bdynamic, -Wl,-Bdynamic, -dy and -call_shared set Dynamic; none of them
\* causes an insertion.
C12_EveryFlagTransitions ==
    op.kind = "link" =>
        LET r == ToggledAnySpelling(pre.arguments, "Dynamic", op, Files(pre.response_map))
        IN  /\ arguments = r.out
            /\ Files(response_map) = r.files

\* ---------------------------------------------------------- the session
\* The scratch files written by the finalizer for response file p
WritesFor(p) ==
    { k \in DOMAIN session.writes : session.writes[k].origin = p }

\* C13: after a finalization that succeeded, for every response file with
\* changed = TRUE the serialized token sequence has been written to its
\* new_path and every top-level token that was @original_path is
\* @new_path; for every response file with changed = FALSE nothing has
\* been written and the tokens referencing it are still @original_path; no
\* other top-level token is altered and the length and order of the
\* top-level list are unchanged.
C13_FinalizerEffect ==
    (op.kind = "finalize" /\ ~session.write_failed) =>
        /\ Len(arguments) = Len(pre.arguments)
        /\ \A i \in DOMAIN pre.arguments :
              LET t == pre.arguments[i] IN
              arguments[i] =
                  IF IsLoadedRef(t, response_map) /\ response_map[Tail(t)].changed
                  THEN << "@" >> \o response_map[Tail(t)].new_path
                  ELSE t
        /\ \A p \in DOMAIN response_map :
              IF response_map[p].changed
              THEN \E k \in WritesFor(p) :
                      /\ session.writes[k].path = response_map[p].new_path
                      /\ session.writes[k].content =
                             write_response_file(response_map[p].values)
              ELSE WritesFor(p) = {}

\* The paths the finalizer has written
Written == { session.writes[k].path : k \in DOMAIN session.writes }

\* The scratch paths a session of the model can be given
ScratchPaths == { scratch_path(p) : p \in RunPaths }

\* C14: on every exit path of a session (just-print return, failure while
\* writing a scratch file, failure to open a redirect file, spawn failure,
\* normal child exit) every scratch file the finalizer wrote is eventually
\* deleted and is absent when the process exits; where a child is spawned
\* no scratch file is deleted before the child has exited; the scratch
\* files are written after the last transformation and before the spawn.
C14_ScratchLifecycle ==
    /\ \A q \in ScratchPaths : (q \in Written) ~> (q \notin DOMAIN session.fs)
    /\ [](session.pc = "exited" => Written \cap DOMAIN session.fs = {})
    /\ [][(DOMAIN session.fs' # DOMAIN session.fs /\ DOMAIN session.fs' \subseteq DOMAIN session.fs)
              => (session.spawned => session.child = "exited")]_vars
    /\ [](session.child = "running" => Written \subseteq DOMAIN session.fs)
    /\ [][session.writes' # session.writes
              => (session.pc = "commands" /\ ~session.spawned /\ ~session'.spawned)]_vars
    /\ [][session.pc # "commands"
              => (ncommands' = ncommands /\ response_map' = response_map)]_vars

\* A session wrote two scratch files, spawned the child, and has exited
\* after the child did, with both files deleted.
C14_Witness ==
    /\ session.pc = "exited" /\ session.spawned /\ session.child = "exited"
    /\ Cardinality(Written) = 2
    /\ Written \cap DOMAIN session.fs = {}

\* C15: if writing a changed response file to its scratch path fails,
\* finalization returns the error to the caller (run() ends with Err), the
\* external process is never spawned in that session, and the session
\* exits with a failure status.
C15_WriteFailureAborts ==
    session.write_failed =>
        /\ session.err
        /\ ~session.spawned /\ session.child = "none"
        /\ session.pc \in { "unwinding", "dropped", "exited" }
        /\ session.pc = "exited" => session.status = 1

\* A session exited after the finalizer had written one scratch file and
\* failed to write the next.
C15_Witness ==
    /\ session.write_failed /\ session.pc = "exited"
    /\ Written # {}

\* ------------------------------------------------- references and nesting
\* t with its @ replaced by the characters of mark
Marked(t, mark) == IF Len(t) >= 1 /\ t[1] = "@" THEN mark \o Tail(t) ELSE t

\* The response files with every @-token inside them marked
MarkedFiles(rmap, mark) ==
    [p \in DOMAIN rmap |->
        [rmap[p] EXCEPT !.values = [k \in DOMAIN rmap[p].values |->
                                       Marked(rmap[p].values[k], mark)]]]

\* An @-token followed by ~ names no response file of the model
Dangling == << "@", "~" >>

\* A response file holds a reference to a loaded response file
NestedLoadedRef(rmap) ==
    \E p \in DOMAIN rmap : \E k \in DOMAIN rmap[p].values :
        IsLoadedRef(rmap[p].values[k], rmap)

\* C16: one level of indirection only. When a relocation or a link-mode
\* toggle scans a response file f and meets a token @q there, it neither
\* reads nor mutates the token sequence or the changed flag of response
\* file q, even when q is a key of the response-file map: the store it
\* leaves is the store it leaves when every @q inside a response file names
\* no response file at all.
C16_OneLevelOnly ==
    op.kind \in { "move", "link" } =>
        LET r == apply_directive(op, pre.arguments, MarkedFiles(pre.response_map, Dangling))
        IN  /\ arguments = r.arguments
            /\ MarkedFiles(response_map, Dangling) = r.response_map

\* A toggle scanned a response file that holds a reference to a loaded
\* response file, and bracketed the key in both files.
C16_Witness ==
    /\ op.kind = "link"
    /\ NestedLoadedRef(pre.response_map)
    /\ \A p \in NestPaths :
          /\ p \in DOMAIN response_map
          /\ Len(response_map[p].values) > Len(pre.response_map[p].values)

\* The mark that makes an @-token an ordinary argument with the same suffix
Plus == << "+" >>

\* The top-level list with every @-token that references no loaded response
\* file marked as an ordinary argument
PlainTop(args, rmap) ==
    [k \in DOMAIN args |->
        IF IsLoadedRef(args[k], rmap) THEN args[k] ELSE Marked(args[k], Plus)]

\* C17: an @-prefixed token that is not a top-level reference to a loaded
\* response file (a top-level @p with p not in the response-file map, or
\* any @-token inside a response file) is handled exactly like an ordinary
\* argument: the store a relocation or a toggle leaves is, up to the first
\* character of these tokens, the store it leaves when they are ordinary
\* arguments with the same suffix; so a relocation collects them when
\* their suffix equals the value and the anchor condition holds.
C17_UnresolvedLikeOrdinary ==
    (op.kind \in { "move", "link" } /\ ~NestedLoadedRef(pre.response_map)) =>
        LET r == apply_directive(op, PlainTop(pre.arguments, pre.response_map),
                                 MarkedFiles(pre.response_map, Plus))
        IN  /\ PlainTop(arguments, response_map) = r.arguments
            /\ MarkedFiles(response_map, Plus) = r.response_map

\* ------------------------------------------------------------ the codec
\* The tokenizer as a scan that emits characters: a backslash that is not
\* itself escaped is dropped and makes the next character an emitted one; a
\* quote that is not escaped toggles quoting and is dropped; white space
\* outside quotes that is not escaped ends the token, empty tokens being
\* dropped; every other character is emitted. st holds the tokens so far,
\* the characters emitted for the current token, and the two flags.
RECURSIVE Scanned(_, _)
Scanned(text, st) ==
    IF text = << >> THEN st
    ELSE LET c == Head(text)
             emit == [st EXCEPT !.cur = Append(st.cur, c), !.esc = FALSE]
         IN  Scanned(Tail(text),
                 IF st.esc THEN emit
                 ELSE IF c = BSL THEN [st EXCEPT !.esc = TRUE]
                 ELSE IF c = QUOTE THEN [st EXCEPT !.quoted = ~st.quoted]
                 ELSE IF c \in { SP, TAB, NL, CR } /\ ~st.quoted
                      THEN [st EXCEPT !.cur = << >>,
                                      !.toks = IF st.cur = << >> THEN st.toks
                                               ELSE Append(st.toks, st.cur)]
                 ELSE emit)

Tokenize(text) ==
    LET st == Scanned(text, [toks |-> << >>, cur |-> << >>, quoted |-> FALSE, esc |-> FALSE])
    IN  IF st.cur = << >> THEN st.toks ELSE Append(st.toks, st.cur)

\* C18: the tokenizer never emits a backslash that is not escaped and emits
\* the character following it literally, whatever it is, with no further
\* interpretation of the emitted characters: the text of four backslashes
\* gives one token of two backslashes, and an escape is decoded exactly once.
C18_EscapeDecodedOnce ==
    (codec.src = "text" /\ codec.pc # "text" /\ CR \notin Range(codec.text0))
        => codec.toks = Tokenize(codec.text0)

\* ------------------------------------------------------------- removal
\* The positions of list holding the token k
Holding(list, k) == { i \in DOMAIN list : list[i] = k }

\* C19: Remove is idempotent. Applying Remove(k) once more to the store
\* Remove(k) has left changes neither the top-level list nor any response
\* file's token sequence nor any changed flag; after one application no
\* token equal to k remains anywhere, all other tokens keep their order,
\* and a response file is marked changed exactly when it lost a token (or
\* was marked before).
C19_RemoveIdempotent ==
    op.kind = "remove" =>
        /\ remove_argument_feature(op.key, arguments, response_map)
               = [arguments |-> arguments, response_map |-> response_map]
        /\ arguments = Without(pre.arguments, Holding(pre.arguments, op.key))
        /\ DOMAIN response_map = DOMAIN pre.response_map
        /\ \A p \in DOMAIN response_map :
              LET was == pre.response_map[p] IN
              /\ response_map[p].values = Without(was.values, Holding(was.values, op.key))
              /\ response_map[p].changed = (was.changed \/ Holding(was.values, op.key) # {})
              /\ response_map[p].original_path = was.original_path
              /\ response_map[p].new_path = was.new_path

\* Remove took one token out of the top-level list and two out of a
\* response file, and left other tokens in the list.
C19_Witness ==
    /\ op.kind = "remove"
    /\ Len(arguments) = Len(pre.arguments) - 1 /\ Len(arguments) >= 2
    /\ \E p \in DOMAIN response_map :
          Len(response_map[p].values) = Len(pre.response_map[p].values) - 2

\* ------------------------------------------- toggles across a reference
\* list with every top-level reference to a loaded file replaced by the
\* tokens of that file
RECURSIVE Expanded(_, _)
Expanded(list, files) ==
    IF list = << >> THEN << >>
    ELSE LET t == Head(list) IN
         (IF Len(t) >= 1 /\ t[1] = "@" /\ Tail(t) \in DOMAIN files
          THEN files[Tail(t)] ELSE << t >>) \o Expanded(Tail(list), files)

\* The link mode after stream when it is start before it: the mode of the
\* last mode flag of stream that the scan of d recognises
ModeAfter(stream, start, d) ==
    LET flags == { k \in DOMAIN stream : Sets(stream[k], d) # "-" }
    IN  IF flags = {} THEN start
        ELSE Sets(stream[CHOOSE k \in flags : \A j \in flags : j <= k], d)

\* The concatenation of the sequences of parts
RECURSIVE Flat(_)
Flat(parts) == IF parts = << >> THEN << >> ELSE Head(parts) \o Flat(Tail(parts))

\* list with the key bracketed wherever the mode entry(k) in which the scan
\* of d reaches position k is not the desired one
Bracketing(list, entry(_), d) ==
    Flat([k \in DOMAIN list |->
            IF list[k] = d.key /\ Sets(list[k], d) = "-" /\ entry(k) # Desired(d)
            THEN << ModeFlag(Desired(d), d), list[k], ModeFlag(entry(k), d) >>
            ELSE << list[k] >>])

\* The mode in which the outer scan reaches top-level position j of the
\* snapshot: Dynamic at the start, then as left by the tokens before j, the
\* tokens of referenced files included
OuterMode(j) ==
    ModeAfter(Expanded(SubSeq(pre.arguments, 1, j - 1), Files(pre.response_map)),
              "Dynamic", op)

\* No response file is referenced twice by the top-level list of the snapshot
SingleReferences ==
    \A i, j \in RefPositions(pre) : pre.arguments[i] = pre.arguments[j] => i = j

\* C20: a link-mode toggle across a response-file reference. The nested scan
\* of the file starts in the mode the outer scan had when it reached the
\* @path token, the outer scan resumes in the mode the nested scan ended
\* in, and the file's changed flag is set by the toggle if and only if a
\* bracket was inserted inside that file.
C20_ToggleAcrossReference ==
    op.kind = "link" =>
        /\ \A p \in DOMAIN response_map :
              response_map[p].changed =
                  (pre.response_map[p].changed
                      \/ Len(response_map[p].values) > Len(pre.response_map[p].values))
        /\ SingleReferences =>
              /\ arguments = Bracketing(pre.arguments, OuterMode, op)
              /\ \A i \in RefPositions(pre) :
                    LET was == pre.response_map[Tail(pre.arguments[i])].values
                        InnerMode(k) == ModeAfter(SubSeq(was, 1, k - 1), OuterMode(i), op)
                    IN  response_map[Tail(pre.arguments[i])].values
                            = Bracketing(was, InnerMode, op)

\* A toggle to Static reached @f in mode Static, left the file in mode
\* Dynamic after bracketing the key inside it, and bracketed the key that
\* follows @f in the top-level list.
C20_Witness ==
    /\ op.kind = "link" /\ ~op.dynamic_link
    /\ pre.arguments = << tStatic, tRefF, tA >>
    /\ Len(arguments) = 5
    /\ response_map[pathF].changed
    /\ pre.response_map[pathF].values = << tBdynamic, tA >>

\* ------------------------------------- a response file referenced twice
\* Sessions that toggle link modes over a top-level list long enough to
\* reference the response file f twice with arguments between and after the
\* two references.
MaxRefArgs == 4

RefTokens == { tA, tB, tStatic, tRefF }
RefFileTokens == { tA, tB, tStatic }

InitRef ==
    /\ arguments \in SeqsUpTo(RefTokens, MaxRefArgs)
    /\ disk \in [ { p \in FilePaths : contains(arguments, << "@" >> \o p) } ->
                    SeqsUpTo(RefFileTokens, MaxFileLen) ]
    /\ response_map = load_response_map(arguments, disk)
    /\ ncommands = 0
    /\ op = NoOp
    /\ pre = Snapshot
    /\ codec = CodecIdle
    /\ peer = NoPeer
    /\ session = NewSession(FALSE)

RefSpec == InitRef /\ [][NextLink]_vars

\* The tokens of stream that the scan of d does not recognise as mode
\* flags, in order, each with the link mode in effect where it stands
\* (Dynamic at the start, then the mode of the last recognised flag before it)
PlainModes(stream, d) ==
    LET plain == { k \in DOMAIN stream : Sets(stream[k], d) = "-" }
    IN  Only([k \in DOMAIN stream |->
                  [tok |-> stream[k],
                   mode |-> ModeAfter(SubSeq(stream, 1, k - 1), "Dynamic", d)]],
             plain)

\* C21: after a link-mode toggle, in the effective argument stream (the
\* top-level list with each loaded @path replaced by the tokens of its
\* file, the link mode recomputed by the flag recognition of the scan),
\* every occurrence of the key is in the desired mode and every other
\* original token is in the mode it was in before the toggle, also when a
\* response file is referenced more than once.
C21_EffectiveModes ==
    op.kind = "link" =>
        LET was == PlainModes(Expanded(pre.arguments, Files(pre.response_map)), op)
            now == PlainModes(Expanded(arguments, Files(response_map)), op)
        IN  /\ Len(now) = Len(was)
            /\ \A k \in DOMAIN now :
                  /\ now[k].tok = was[k].tok
                  /\ now[k].mode = IF now[k].tok = op.key THEN Desired(op)
                                   ELSE was[k].mode

\* C22: a link-mode toggle is idempotent. Applying the same toggle (same
\* key, desired mode and invoked_as_linker) a second time inserts nothing
\* in the top-level list or in any response file, including when one
\* response file is referenced by two top-level @path tokens.
C22_ToggleIdempotent ==
    op.kind = "link" =>
        LET again == apply_directive(op, arguments, response_map)
        IN  /\ again.arguments = arguments
            /\ Files(again.response_map) = Files(response_map)

\* ------------------------------------------ the session on a file system
\* A response file in the working directory, one of the same file name in
\* a sub-directory, and the file at the scratch path of both.
pathDF == << "d", "/", "f" >>
tRefDF == << "@" >> \o pathDF
HostPaths == { pathF, pathDF, scratch_path(pathF) }
HostTokens == { tRefF, tRefDF, tRefScratchF }
HostTexts == { write_response_file(c) : c \in RunContents }

\* A session right after run() has collected the arguments, with the files
\* that exist when it starts: session.fs is the file system, disk the
\* tokens read_response_file gives for each file present at the start.
HostInit ==
    /\ arguments \in SeqsUpTo(HostTokens, MaxArgs)
    /\ \E S \in SUBSET HostPaths : \E texts \in [S -> HostTexts] :
          /\ disk = [p \in S |-> read_response_file(texts[p])]
          /\ \E just_print \in BOOLEAN :
                session = [NewSession(just_print) EXCEPT !.fs = texts]
    /\ response_map = load_response_map(arguments, disk)
    /\ ncommands = 0
    /\ op = NoOp
    /\ pre = Snapshot
    /\ codec = CodecIdle
    /\ peer = NoPeer

HostSpec == HostInit /\ [][RunNext]_vars

\* C23: distinct loaded response files (distinct original_path keys,
\* possibly of the same file name in different directories) have distinct
\* new_path values and no new_path equals any original_path; from a
\* finalization that succeeded until the child has exited each token that
\* replaced @original_path of a changed file names a file whose content
\* tokenizes to the token sequence of that response file; finalization
\* never writes over an input response file.
C23_ScratchPathsDistinct ==
    /\ \A p, q \in DOMAIN response_map :
          /\ p # q => response_map[p].new_path # response_map[q].new_path
          /\ response_map[p].new_path # response_map[q].original_path
    /\ (op.kind = "finalize" /\ session.pc \in { "finalized", "waiting" }) =>
          \A i \in DOMAIN pre.arguments :
              LET t == pre.arguments[i] IN
              (IsLoadedRef(t, response_map) /\ response_map[Tail(t)].changed) =>
                  /\ Len(arguments[i]) >= 1 /\ arguments[i][1] = "@"
                  /\ Tail(arguments[i]) \in DOMAIN session.fs
                  /\ read_response_file(session.fs[Tail(arguments[i])])
                         = response_map[Tail(t)].values
    /\ \A k \in DOMAIN session.writes :
          session.writes[k].path \notin DOMAIN response_map

\* C25: teardown deletes only files this session created. For a response
\* file that stayed unchanged (no scratch file written for it), teardown
\* performs no delete at its new_path: a file present at that path before
\* the session, which the session did not write, is still present with its
\* content after teardown.
C25_TeardownDeletesOwnFiles ==
    session.pc \in { "dropped", "exited" } =>
        \A p \in DOMAIN response_map :
            LET q == response_map[p].new_path IN
            (~response_map[p].changed /\ q \in DOMAIN disk /\ q \notin Written) =>
                /\ q \in DOMAIN session.fs
                /\ read_response_file(session.fs[q]) = disk[q]

\* ------------------------------------------------ two concurrent sessions
\* Two wrapper processes run at the same time on one file system
\* (session.fs), as parallel build jobs do. The first is the session of the
\* variables arguments, response_map and session; the second is peer, the
\* same program on its own arguments, stepping through the same run().
pathG == << "g" >>
tRefG == << "@" >> \o pathG
PairPaths == { pathF, pathDF, pathG }
PairTokens == { tA, tRefF }
PeerTokens == { tRefDF, tRefG }
MaxPeerArgs == 2

PairInit ==
    /\ arguments \in SeqsUpTo(PairTokens, MaxArgs)
    /\ \E texts \in [PairPaths -> HostTexts] :
          /\ disk = [p \in PairPaths |-> read_response_file(texts[p])]
          /\ \E just_print \in BOOLEAN :
                session = [NewSession(just_print) EXCEPT !.fs = texts]
    /\ response_map = load_response_map(arguments, disk)
    /\ \E args \in SeqsUpTo(PeerTokens, MaxPeerArgs) :
          peer = [NoPeer EXCEPT !.pc = "commands", !.arguments = args,
                                !.response_map = load_response_map(args, disk)]
    /\ ncommands = 0
    /\ op = NoOp
    /\ pre = Snapshot
    /\ codec = CodecIdle

\* peer: one directive of its commands list, a -clw-remove
PeerRemove ==
    /\ peer.pc = "commands" /\ peer.ncommands < MaxCommands
    /\ \E key \in RemoveKeys :
          LET r == remove_argument_feature(key, peer.arguments, peer.response_map)
          IN  peer' = [peer EXCEPT !.arguments = r.arguments,
                                   !.response_map = r.response_map,
                                   !.ncommands = peer.ncommands + 1]
    /\ UNCHANGED << arguments, response_map, disk, ncommands, op, pre, codec, session >>

\* peer: config.replace_response_file() writes every changed file
PeerFinalize ==
    /\ peer.pc = "commands"
    /\ \E order \in Perms(DOMAIN peer.response_map) :
          LET r == replace_response_file(order, {}, peer.arguments,
                                         peer.response_map, session.fs, peer.writes)
          IN  /\ peer' = [peer EXCEPT !.pc = "finalized", !.arguments = r.arguments,
                                      !.writes = r.writes]
              /\ session' = [session EXCEPT !.fs = r.fs]
    /\ UNCHANGED << arguments, response_map, disk, ncommands, op, pre, codec >>

\* peer: command.spawn() is Ok(child); run() blocks in child.wait()
PeerSpawn ==
    /\ peer.pc = "finalized"
    /\ peer' = [peer EXCEPT !.pc = "waiting"]
    /\ UNCHANGED << arguments, response_map, disk, ncommands, op, pre, codec, session >>

\* peer: child.wait() returns
PeerChildExits ==
    /\ peer.pc = "waiting"
    /\ peer' = [peer EXCEPT !.pc = "unwinding"]
    /\ UNCHANGED << arguments, response_map, disk, ncommands, op, pre, codec, session >>

\* peer: run() returns and its config is dropped
PeerTeardown ==
    /\ peer.pc = "unwinding"
    /\ peer' = [peer EXCEPT !.pc = "dropped"]
    /\ session' = [session EXCEPT !.fs = drop(session.fs, peer.response_map)]
    /\ UNCHANGED << arguments, response_map, disk, ncommands, op, pre, codec >>

PeerNext ==
    PeerRemove \/ PeerFinalize \/ PeerSpawn \/ PeerChildExits \/ PeerTeardown

PairNext == RunNext \/ PeerNext

PairSpec == PairInit /\ [][PairNext]_vars

\* The content a process last wrote to path q, given its list of writes
LastWritten(writes, q) ==
    LET ks == { k \in DOMAIN writes : writes[k].path = q }
    IN  writes[CHOOSE k \in ks : \A j \in ks : j <= k].content

\* Every scratch file of writes is on the file system with the content
\* last written to it by the process that made these writes
Intact(writes) ==
    \A k \in DOMAIN writes :
        LET q == writes[k].path IN
        /\ q \in DOMAIN session.fs
        /\ session.fs[q] = LastWritten(writes, q)

\* C24: when two rewrite sessions run concurrently, the scratch file a
\* session wrote and passed as @new_path to its child keeps existing with
\* that session's content until that child exits: no step of the other
\* session (finalization write or teardown delete) overwrites or removes
\* it.
C24_ScratchFilesIsolated ==
    /\ session.child = "running" => Intact(session.writes)
    /\ peer.pc = "waiting" => Intact(peer.writes)

====
